---- MODULE Spec2Model ----
(***************************************************************************)
(* Bulk price caching and refresh of stockwise:                            *)
(*   app/services/bulk_price_service.py  (BulkPriceService)                *)
(*   app/celery.py                       (fetch_and_cache_bulk_prices)     *)
(*                                                                         *)
(* Prices are integers in hundredths (175.50 is 17550).  Time is in        *)
(* seconds.  The shared Redis store holds three keys: the lock, the        *)
(* snapshot blob and the last-fetch timestamp; each key carries the clock  *)
(* Redis keeps for it (remaining TTL of the lock, age of the two setex     *)
(* writes, whose time.time() value is the instant of the write).           *)
(***************************************************************************)
EXTENDS Integers, Sequences, FiniteSets, TLC

\* ---------------------------------------------------------------- bounds
NumWorkers == 2
MaxClock == 6
MaxRuns == 2
MaxTickers == 2

\* ------------------------------------------------------ program constants
cache_ttl == 86400
bulk_fetch_interval == 3600
LockTTL == 600
FetchTimeout == 300
RequestDelay == 12
MaxPriority == 10
DefaultPrice == 10000

\* a live quote the provider can answer (180.00), different from any fallback
\* RateLimitConfig.MIN_REQUEST_INTERVAL = 1.0 second, in half seconds
MIN_REQUEST_INTERVAL == 1 * 2

\* the coroutines that call _rate_limit on the one PriceService
Callers == {1, 2}

LiveQuote == 180 * 100

Workers == 1..NumWorkers

\* self.all_assets, restricted to one symbol of each kind: two priority
\* symbols, one symbol with a fallback price that is not a priority symbol,
\* one tracked symbol that has no fallback price
all_assets == {"AAPL", "MSFT", "DIS", "GOOG"}

\* self.fallback_prices, restricted to the symbols above
fallback_prices == [s \in {"AAPL", "MSFT", "DIS"} |->
                      CASE s = "AAPL" -> 17550
                        [] s = "MSFT" -> 42025
                        [] s = "DIS" -> 11285]

\* priority_assets of _fetch_limited_live_prices, restricted likewise
priority_assets == <<"AAPL", "MSFT">>

\* the strings a caller may pass to get_prices
InputSymbols == {"AAPL", "aapl", "zzz"}

\* str.upper() on the strings of the model
Upper(s) ==
  CASE s = "aapl" -> "AAPL"
    [] s = "zzz" -> "ZZZ"
    [] OTHER -> s

NoPrices == <<>>

\* dict.get(key, default)
DictGet(d, k, default) == IF k \in DOMAIN d THEN d[k] ELSE default

\* dict.update(other)
DictUpdate(d, other) ==
  [k \in DOMAIN d \cup DOMAIN other |->
     IF k \in DOMAIN other THEN other[k] ELSE d[k]]

Min(a, b) == IF a < b THEN a ELSE b

\* {asset: self.fallback_prices.get(asset, 100.0) for asset in self.all_assets}
FallbackDict == [a \in all_assets |-> DictGet(fallback_prices, a, DefaultPrice)]

\* [asset for asset in priority_assets if asset in self.all_assets][:10]
fetch_assets ==
  LET kept == SelectSeq(priority_assets, LAMBDA a : a \in all_assets)
  IN  SubSeq(kept, 1, Min(Len(kept), MaxPriority))

\* what the provider can answer to one GLOBAL_QUOTE request
Responses ==
  {[kind |-> "http_error", price |-> 0],
   [kind |-> "bad_json", price |-> 0],
   [kind |-> "note", price |-> 0],
   [kind |-> "error_message", price |-> 0],
   [kind |-> "exception", price |-> 0],
   [kind |-> "quote", price |-> 0],
   [kind |-> "quote", price |-> LiveQuote]}

\* _get_alpha_vantage_price_safe: the price, or 0 for None
get_alpha_vantage_price_safe(resp) ==
  IF resp.kind = "quote" /\ resp.price > 0 THEN resp.price ELSE 0

VARIABLES
  redis_ok,      \* the store answers commands
  everDown,      \* history: the store has been unreachable at some time
  apiKey,        \* settings.ALPHA_VANTAGE_API_KEY is configured
  lock,          \* key bulk_fetch:lock
  snap,          \* key bulk_prices:all
  ts,            \* key bulk_fetch:timestamp
  wk,            \* per worker: the position of its refresh task
  nruns,         \* refresh tasks started so far
  req,           \* the request path: one get_prices call
  price_cache,   \* keys price:<TICKER> of RedisCacheService
  cache_redis,   \* RedisCacheService._redis holds a client
  call,          \* one call of PriceService
  rate,          \* PriceService._rate_limit: the clock and its callers
  warm,          \* one call of BulkPriceService.warm_cache
  last_live      \* history: the last run that executed the live fetch

vars == <<redis_ok, everDown, apiKey, lock, snap, ts, wk, nruns, req,
          price_cache, cache_redis, call, rate, warm, last_live>>

NoLock == [held |-> FALSE, owner |-> 0, ttl |-> 0]
NoSnap == [has |-> FALSE, prices |-> NoPrices, count |-> 0, age |-> 0]
NoTs == [has |-> FALSE, age |-> 0]

\* a worker's task.  pc is its position; elapsed and wait are the clocks of
\* wait_for and asyncio.sleep; live is what Alpha Vantage returned so far and
\* calls the number of requests sent; ret is what fetch_bulk_prices_safe
\* returned and outcome how its try block ended; holds is the answer of
\* acquire_fetch_lock and released that of the DELETE; status and
\* cache_success are the task's result.  solo and recent are history: no
\* other task has run since this one started; the last-fetch timestamp was
\* younger than the interval when this task looked
IdleWorker ==
  [pc |-> "idle", elapsed |-> 0, wait |-> 0, calls |-> 0, live |-> NoPrices,
   ret |-> NoPrices, outcome |-> "none", holds |-> "no", route |-> "none",
   released |-> "none", status |-> "none", cache_success |-> FALSE,
   solo |-> FALSE, recent |-> FALSE]

IdleReq ==
  [pc |-> "idle", tickers |-> <<>>, result |-> NoPrices, raised |-> FALSE,
   scheduled |-> FALSE, live_calls |-> 0, status |-> "ok"]

\* the upper-cased tickers, which name the keys price:<TICKER>
PriceKeys == {Upper(t) : t \in InputSymbols}

NoEntry == [has |-> FALSE, value |-> 0, ttl |-> 0]

\* a call of PriceService.  op is the method and pc its position; tickers
\* the argument (upper-cased for get_multiple_prices) and i the index of
\* the loop it is in; cached is what cache_service.get returned, fetched
\* what the API returned (0 for None or an exception); prices, uncached and
\* answers are the locals of get_multiple_prices and _fetch_batch_prices;
\* fetches and writes count the API fetches and the setex that succeeded;
\* get_status and set_status are how the last store commands went and
\* set_raised whether cache_service.set raised; result is the value
\* returned (a price, or the prices dict) and raised whether the call raised
IdleCall ==
  [pc |-> "idle", op |-> "none", tickers |-> <<>>, i |-> 0, cached |-> 0,
   fetched |-> 0, prices |-> NoPrices, uncached |-> <<>>, answers |-> <<>>,
   fetches |-> 0, writes |-> 0, get_status |-> "none", set_status |-> "none",
   get_raised |-> FALSE, set_raised |-> FALSE, result |-> 0,
   results |-> NoPrices, raised |-> FALSE]

\* a coroutine's position in _rate_limit; wake is the end of its
\* asyncio.sleep.  In rate, now is time.time() and last_request_time the
\* attribute, both in half seconds, and completed is history: whether and
\* when a call of _rate_limit last completed
IdleCaller == [pc |-> "idle", wake |-> 0]

\* one call of warm_cache: result is the value returned and reachable
\* whether the store answered when it was called
IdleWarm == [pc |-> "idle", result |-> FALSE, reachable |-> FALSE, wrote |-> FALSE]

\* no run has executed the live fetch yet
NoLive == [has |-> FALSE, age |-> 0]

Init ==
  /\ redis_ok = TRUE
  /\ everDown = FALSE
  /\ apiKey \in BOOLEAN
  /\ lock = NoLock
  /\ snap = NoSnap
  /\ ts = NoTs
  /\ wk = [p \in Workers |-> IdleWorker]
  /\ nruns = 0
  /\ req = IdleReq
  /\ price_cache = [k \in PriceKeys |-> NoEntry]
  /\ cache_redis = FALSE
  /\ call = IdleCall
  /\ rate = [now |-> MIN_REQUEST_INTERVAL, last_request_time |-> 0,
             co |-> [c \in Callers |-> IdleCaller],
             completed |-> [has |-> FALSE, at |-> 0]]
  /\ warm = IdleWarm
  /\ last_live = NoLive

\* ------------------------------------------------------------- the store

\* get_redis, then one command.  With the store up the connection is made (or
\* reused) and the command answers: "ok".  With the store down either no
\* connection can be made and get_redis returns None ("none"), or the client
\* cached by an earlier ping raises on the command ("error")
StoreStatuses == IF redis_ok THEN {"ok"} ELSE {"none", "error"}

StoreDown ==
  /\ redis_ok
  /\ ~everDown
  /\ redis_ok' = FALSE
  /\ everDown' = TRUE
  /\ UNCHANGED <<apiKey, lock, snap, ts, wk, nruns, req, price_cache, cache_redis, call, rate, warm, last_live>>

StoreUp ==
  /\ ~redis_ok
  /\ redis_ok' = TRUE
  /\ UNCHANGED <<everDown, apiKey, lock, snap, ts, wk, nruns, req, price_cache, cache_redis, call, rate, warm, last_live>>

\* ------------------------------------------------- BulkPriceService parts

\* should_fetch_bulk_data that finds a fetch due at exactly the interval
should_fetch_at_interval(status, lk, t) ==
  IF status = "none" THEN TRUE
  ELSE IF status = "error" THEN TRUE
  ELSE IF lk.held THEN FALSE
  ELSE IF ~t.has THEN TRUE
  ELSE t.age >= bulk_fetch_interval

should_fetch_bulk_data(status, lk, t) ==
  IF status = "none" THEN TRUE
  ELSE IF status = "error" THEN TRUE
  ELSE IF lk.held THEN FALSE
  ELSE IF ~t.has THEN TRUE
  ELSE t.age > bulk_fetch_interval

\* get_cached_prices that does not look at the age of the blob and answers
\* from a local copy when the store is away
get_cached_prices_stale(status, s) ==
  IF ~s.has THEN NoPrices ELSE s.prices

\* get_cached_prices: the prices, or NoPrices for None
get_cached_prices(status, s) ==
  IF status # "ok" THEN NoPrices
  ELSE IF ~s.has THEN NoPrices
  ELSE IF s.age > cache_ttl THEN NoPrices
  ELSE s.prices

\* SET without NX: it always answers true
SetAlways(lk) == TRUE

\* SET bulk_fetch:lock "locked" EX 600 NX answers true
SetNX(lk) == ~lk.held

\* acquire_fetch_lock that gives up when it cannot reach the store
acquire_fail_closed(status, lk) ==
  IF status = "none" THEN "no"
  ELSE IF status = "error" THEN "no"
  ELSE IF SetNX(lk) THEN "key"
  ELSE "no"

\* acquire_fetch_lock: "key" (created the key, True), "open" (True without a
\* key: no Redis, or the command raised), "no" (False)
acquire_fetch_lock(status, lk) ==
  IF status = "none" THEN "open"
  ELSE IF status = "error" THEN "open"
  ELSE IF SetNX(lk) THEN "key"
  ELSE "no"

\* release_fetch_lock that deletes another key
release_other_key(status, lk) == lk

\* release_fetch_lock: DELETE bulk_fetch:lock, errors swallowed
release_fetch_lock(status, lk) ==
  IF status = "ok" THEN NoLock ELSE lk

\* _fetch_limited_live_prices that fills the missing symbols with 100.0
fetch_limited_default_fill(av_prices) ==
  IF Len(fetch_assets) = 0 THEN NoPrices
  ELSE LET assets == {fetch_assets[i] : i \in 1..Len(fetch_assets)}
       IN  [a \in assets |->
              IF a \in DOMAIN av_prices THEN av_prices[a] ELSE DefaultPrice]

\* _fetch_limited_live_prices, given what Alpha Vantage returned
fetch_limited_live_prices(av_prices) ==
  IF Len(fetch_assets) = 0 THEN NoPrices
  ELSE LET assets == {fetch_assets[i] : i \in 1..Len(fetch_assets)}
       IN  [a \in assets |->
              IF a \in DOMAIN av_prices THEN av_prices[a]
              ELSE DictGet(fallback_prices, a, DefaultPrice)]

\* a try block that keeps the live prices only when every request succeeded
bulk_prices_all_or_nothing(av_prices) ==
  IF \A i \in 1..Len(fetch_assets) : fetch_assets[i] \in DOMAIN av_prices
  THEN DictUpdate(FallbackDict, fetch_limited_live_prices(av_prices))
  ELSE FallbackDict

\* the try block of fetch_bulk_prices_safe
bulk_prices(av_prices) == DictUpdate(FallbackDict, fetch_limited_live_prices(av_prices))

\* ------------------------------------------------------ the refresh task

Running(p) == wk[p].pc \in {"fetch", "sleep"}

\* the Celery task starts: fetch_bulk_prices_safe under wait_for(300)
StartWithin(p, n) ==
  /\ wk[p].pc = "idle"
  /\ nruns < n
  /\ nruns' = nruns + 1
  /\ wk' = [q \in Workers |->
              IF q = p
              THEN [IdleWorker EXCEPT
                      !.pc = "should",
                      !.solo = \A r \in Workers \ {p} : wk[r].pc = "idle"]
              ELSE [wk[q] EXCEPT !.solo = FALSE]]
  /\ UNCHANGED <<redis_ok, everDown, apiKey, lock, snap, ts, req, price_cache, cache_redis, call, rate, warm, last_live>>

Start(p) == StartWithin(p, MaxRuns)

ShouldFetch(p) ==
  /\ wk[p].pc = "should"
  /\ \E st \in StoreStatuses :
       wk' = [wk EXCEPT ![p].pc = IF should_fetch_bulk_data(st, lock, ts)
                                  THEN "acquire" ELSE "skip_read",
                        ![p].recent = ts.has /\ ts.age <= bulk_fetch_interval]
  /\ UNCHANGED <<redis_ok, everDown, apiKey, lock, snap, ts, nruns, req, price_cache, cache_redis, call, rate, warm, last_live>>

\* "Bulk fetch not needed": return the cached prices if there are any
SkipRead(p) ==
  /\ wk[p].pc = "skip_read"
  /\ \E st \in StoreStatuses :
       LET cached == get_cached_prices(st, snap)
       IN  wk' = IF cached # NoPrices
                 THEN [wk EXCEPT ![p].ret = cached, ![p].route = "skip",
                                 ![p].outcome = "returned", ![p].pc = "cache"]
                 ELSE [wk EXCEPT ![p].pc = "acquire"]
  /\ UNCHANGED <<redis_ok, everDown, apiKey, lock, snap, ts, nruns, req, price_cache, cache_redis, call, rate, warm, last_live>>

\* a lock key that expires before the cap of wait_for
lock_value_short(p) ==
  [held |-> TRUE, owner |-> p, ttl |-> FetchTimeout - RequestDelay]

\* the key written by SET bulk_fetch:lock "locked" EX 600 NX
lock_value(p) == [held |-> TRUE, owner |-> p, ttl |-> LockTTL]

Acquire(p) ==
  /\ wk[p].pc = "acquire"
  /\ \E st \in StoreStatuses :
       LET got == acquire_fetch_lock(st, lock)
       IN  /\ wk' = [wk EXCEPT ![p].holds = got,
                               ![p].pc = IF got = "no" THEN "lost_read" ELSE "fetch"]
           /\ lock' = IF got = "key" THEN lock_value(p) ELSE lock
  /\ UNCHANGED <<redis_ok, everDown, apiKey, snap, ts, nruns, req, price_cache, cache_redis, call, rate, warm, last_live>>

\* the lost-lock branch that returns nothing without a snapshot
lost_lock_prices_cached_only(cached) == cached

\* what the branch "lock not acquired" returns, given get_cached_prices
lost_lock_prices(cached) ==
  IF cached # NoPrices THEN cached ELSE FallbackDict

\* "Another fetch in progress": cached prices, else the fallbacks
LostRead(p) ==
  /\ wk[p].pc = "lost_read"
  /\ \E st \in StoreStatuses :
       LET cached == get_cached_prices(st, snap)
       IN  wk' = [wk EXCEPT ![p].ret = lost_lock_prices(cached),
                            ![p].route = "lost",
                            ![p].outcome = "returned",
                            ![p].pc = "cache"]
  /\ UNCHANGED <<redis_ok, everDown, apiKey, lock, snap, ts, nruns, req, price_cache, cache_redis, call, rate, warm, last_live>>

\* one iteration of the loop of _fetch_alpha_vantage_limited: the request
\* for fetch_assets[calls + 1], then asyncio.sleep(12) unless it was the last
LiveRequest(p) ==
  /\ wk[p].pc = "fetch"
  /\ apiKey
  /\ wk[p].calls < Len(fetch_assets)
  /\ wk[p].elapsed < FetchTimeout
  /\ \E resp \in Responses :
       LET asset == fetch_assets[wk[p].calls + 1]
           price == get_alpha_vantage_price_safe(resp)
           last == wk[p].calls + 1 = Len(fetch_assets)
       IN  wk' = [wk EXCEPT
                    ![p].live = IF price > 0
                                THEN DictUpdate(@, [a \in {asset} |-> price])
                                ELSE @,
                    ![p].calls = @ + 1,
                    ![p].wait = IF last THEN 0 ELSE RequestDelay,
                    ![p].pc = IF last THEN "fetch" ELSE "sleep"]
  /\ UNCHANGED <<redis_ok, everDown, apiKey, lock, snap, ts, nruns, req, price_cache, cache_redis, call, rate, warm, last_live>>

\* a loop that does not pause between two requests
WakeEarly(p) ==
  /\ wk[p].pc = "sleep"
  /\ wk[p].elapsed < FetchTimeout
  /\ wk' = [wk EXCEPT ![p].pc = "fetch", ![p].wait = 0]
  /\ UNCHANGED <<redis_ok, everDown, apiKey, lock, snap, ts, nruns, req, price_cache, cache_redis, call, rate, warm, last_live>>

\* asyncio.sleep(12) is over
Wake(p) ==
  /\ wk[p].pc = "sleep"
  /\ wk[p].wait = 0
  /\ wk[p].elapsed < FetchTimeout
  /\ wk' = [wk EXCEPT ![p].pc = "fetch"]
  /\ UNCHANGED <<redis_ok, everDown, apiKey, lock, snap, ts, nruns, req, price_cache, cache_redis, call, rate, warm, last_live>>

\* the try block returns bulk_prices
FinishFetch(p) ==
  /\ wk[p].pc = "fetch"
  /\ ~apiKey \/ wk[p].calls = Len(fetch_assets)
  /\ wk[p].elapsed < FetchTimeout
  /\ wk' = [wk EXCEPT ![p].ret = bulk_prices(wk[p].live),
                      ![p].elapsed = 0, ![p].wait = 0,
                      ![p].route = "fetch",
                      ![p].outcome = "returned",
                      ![p].pc = "release"]
  /\ UNCHANGED <<redis_ok, everDown, apiKey, lock, snap, ts, nruns, req, price_cache, cache_redis, call, rate, warm, last_live>>

\* the try block raises: the except branch returns the fallbacks
FetchRaise(p) ==
  /\ wk[p].pc = "fetch"
  /\ wk[p].elapsed < FetchTimeout
  /\ wk' = [wk EXCEPT ![p].ret = FallbackDict,
                      ![p].live = NoPrices, ![p].elapsed = 0, ![p].wait = 0,
                      ![p].route = "fetch",
                      ![p].outcome = "raised",
                      ![p].pc = "release"]
  /\ UNCHANGED <<redis_ok, everDown, apiKey, lock, snap, ts, nruns, req, price_cache, cache_redis, call, rate, warm, last_live>>

\* wait_for(..., timeout=300) cancels the coroutine: only finally runs
FetchCancel(p) ==
  /\ Running(p)
  /\ wk[p].elapsed = FetchTimeout
  /\ wk' = [wk EXCEPT ![p].ret = NoPrices,
                      ![p].live = NoPrices, ![p].elapsed = 0, ![p].wait = 0,
                      ![p].route = "fetch",
                      ![p].outcome = "timeout",
                      ![p].pc = "release"]
  /\ UNCHANGED <<redis_ok, everDown, apiKey, lock, snap, ts, nruns, req, price_cache, cache_redis, call, rate, warm, last_live>>

\* run_async_task that has no handler for asyncio.TimeoutError
task_status_unhandled(outcome) ==
  IF outcome = "timeout" THEN "raised" ELSE "success"

\* run_async_task: the "status" of the dict the task returns, given how
\* wait_for(fetch_bulk_prices_safe(), 300) ended
task_status(outcome) ==
  IF outcome = "timeout" THEN "error" ELSE "success"

\* finally: release_fetch_lock.  fetch_bulk_prices_safe is over: the task
\* goes on to cache what was returned, or after a timeout returns
\* {"status": "error"}
Release(p) ==
  /\ wk[p].pc = "release"
  /\ \E st \in StoreStatuses :
       /\ lock' = release_fetch_lock(st, lock)
       /\ wk' = [wk EXCEPT ![p].released = IF st = "ok" THEN "ok" ELSE "failed",
                           ![p].pc = IF wk[p].outcome = "timeout" THEN "done" ELSE "cache",
                           ![p].status = IF wk[p].outcome = "timeout"
                                         THEN task_status(wk[p].outcome) ELSE @]
  /\ last_live' = [has |-> TRUE, age |-> 0]
  /\ UNCHANGED <<redis_ok, everDown, apiKey, snap, ts, nruns, req, price_cache, cache_redis, call, rate, warm>>

\* cache_data that counts the symbols fetched live instead of the entries
cache_data_live_count(prices) ==
  [has |-> TRUE, prices |-> prices, count |-> Len(fetch_assets), age |-> 0]

\* cache_data of cache_bulk_prices: the blob written under bulk_prices:all
cache_data(prices) ==
  [has |-> TRUE, prices |-> prices, count |-> Cardinality(DOMAIN prices), age |-> 0]

\* cache_bulk_prices, first setex: the snapshot blob
CacheSnapshot(p) ==
  /\ wk[p].pc = "cache"
  /\ \E st \in StoreStatuses :
       IF st = "ok"
       THEN /\ snap' = cache_data(wk[p].ret)
            /\ wk' = [wk EXCEPT ![p].pc = "cache_ts"]
       ELSE /\ snap' = snap
            /\ wk' = [wk EXCEPT ![p].pc = "done", ![p].status = task_status(wk[p].outcome),
                                ![p].cache_success = FALSE]
  /\ UNCHANGED <<redis_ok, everDown, apiKey, lock, ts, nruns, req, price_cache, cache_redis, call, rate, warm, last_live>>

\* cache_bulk_prices, second setex: the last-fetch timestamp; the task
\* returns {"status": "success", "cache_success": ...}
CacheTimestamp(p) ==
  /\ wk[p].pc = "cache_ts"
  /\ \E st \in StoreStatuses :
       IF st = "ok"
       THEN /\ ts' = [has |-> TRUE, age |-> 0]
            /\ wk' = [wk EXCEPT ![p].pc = "done", ![p].status = task_status(wk[p].outcome),
                                ![p].cache_success = TRUE]
       ELSE /\ ts' = ts
            /\ wk' = [wk EXCEPT ![p].pc = "done", ![p].status = task_status(wk[p].outcome),
                                ![p].cache_success = FALSE]
  /\ UNCHANGED <<redis_ok, everDown, apiKey, lock, snap, nruns, req, price_cache, cache_redis, call, rate, warm, last_live>>

\* the worker is free for the next task
Return(p) ==
  /\ wk[p].pc = "done"
  /\ wk' = [wk EXCEPT ![p] = IdleWorker]
  /\ UNCHANGED <<redis_ok, everDown, apiKey, lock, snap, ts, nruns, req, price_cache, cache_redis, call, rate, warm, last_live>>

\* ------------------------------------------------------ the request path

\* the lists of tickers a caller passes: up to MaxTickers different strings
TickerLists ==
  {l \in UNION {[1..n -> InputSymbols] : n \in 1..MaxTickers} :
     \A i, j \in 1..Len(l) : i # j => l[i] # l[j]}

\* get_prices keyed by the upper-cased ticker
get_prices_upper_keys(cached, tickers) ==
  LET given == {Upper(tickers[i]) : i \in 1..Len(tickers)}
  IN  IF cached # NoPrices
      THEN [t \in given |->
              IF t \in DOMAIN cached THEN cached[t]
              ELSE DictGet(fallback_prices, t, DefaultPrice)]
      ELSE [t \in given |-> DictGet(fallback_prices, t, DefaultPrice)]

\* get_prices: the mapping returned, keyed by the tickers as given
get_prices(cached, tickers) ==
  LET given == {tickers[i] : i \in 1..Len(tickers)}
  IN  IF cached # NoPrices
      THEN [t \in given |->
              IF Upper(t) \in DOMAIN cached THEN cached[Upper(t)]
              ELSE DictGet(fallback_prices, Upper(t), DefaultPrice)]
      ELSE [t \in given |-> DictGet(fallback_prices, Upper(t), DefaultPrice)]

\* get_prices asking the provider for every ticker the cache misses
get_prices_fetching_misses(cached, tickers) ==
  Cardinality({i \in 1..Len(tickers) : Upper(tickers[i]) \notin DOMAIN cached})

\* get_prices: requests sent to the price provider during the call
get_prices_live_calls(cached, tickers) == 0

\* get_prices that lets the error of a store command through
get_prices_raises_uncaught(status) == status = "error"

\* get_prices: an exception leaves the call (both try blocks catch Exception)
get_prices_raises(status) == FALSE

\* get_prices: the call has to wait for a refresh task (it only creates the
\* task that enqueues one)
get_prices_awaits_refresh == FALSE

\* get_prices that triggers a refresh on every call
get_prices_schedules_always(cached) == TRUE

\* get_prices: asyncio.create_task(self._trigger_background_refresh()) is
\* reached, which is when get_cached_prices gave nothing
get_prices_schedules(cached) == cached = NoPrices

\* a request handler calls get_prices(tickers): get_cached_prices answers and
\* get_prices returns
GetPrices(tickers) ==
  /\ req.pc = "idle"
  /\ get_prices_awaits_refresh => \A p \in Workers : wk[p].pc = "idle"
  /\ \E st \in StoreStatuses :
       LET cached == get_cached_prices(st, snap)
       IN  req' = [pc |-> "done",
                   tickers |-> tickers,
                   result |-> get_prices(cached, tickers),
                   raised |-> get_prices_raises(st),
                   scheduled |-> get_prices_schedules(cached),
                   live_calls |-> get_prices_live_calls(cached, tickers),
                   status |-> st]
  /\ UNCHANGED <<redis_ok, everDown, apiKey, lock, snap, ts, wk, nruns, price_cache, cache_redis, call, rate, warm, last_live>>

\* the handler has used the result
ReqReturn ==
  /\ req.pc = "done"
  /\ req' = IdleReq
  /\ UNCHANGED <<redis_ok, everDown, apiKey, lock, snap, ts, wk, nruns, price_cache, cache_redis, call, rate, warm, last_live>>

\* ------------------------------------------------------------------ time

Delays == {RequestDelay, FetchTimeout, bulk_fetch_interval, cache_ttl}

\* store commands take no time: the clock moves only while every task is
\* idle, waiting for the provider or asleep
Quiet ==
  /\ \A p \in Workers : wk[p].pc \in {"idle", "fetch", "sleep"}
  /\ req.pc = "idle"

\* seconds until the first wait_for deadline of a running task
Slack ==
  LET left == {FetchTimeout - wk[p].elapsed : p \in {q \in Workers : Running(q)}}
  IN  IF left = {} THEN cache_ttl
      ELSE CHOOSE m \in left : \A x \in left : m <= x

\* a key written by setex expires cache_ttl seconds after the write
AgeKey(k, none, e) ==
  IF k.has /\ k.age + e < cache_ttl THEN [k EXCEPT !.age = @ + e] ELSE none

\* the clock advances by d seconds, or up to the first deadline if that is
\* nearer.  Steps of seconds are taken only while a task sleeps, steps of
\* minutes only while a task runs, steps of an hour only until the last
\* fetch is older than the interval (a step of a day covers the rest)
Tick(d) ==
  /\ Quiet
  /\ d = RequestDelay => \E p \in Workers : wk[p].pc = "sleep" /\ wk[p].wait > 0
  /\ d = FetchTimeout => \E p \in Workers : Running(p)
  /\ d = bulk_fetch_interval => ts.has /\ ts.age <= bulk_fetch_interval
  /\ LET e == Min(d, Slack)
     IN  /\ e > 0
         /\ wk' = [p \in Workers |->
                     IF Running(p)
                     THEN [wk[p] EXCEPT !.elapsed = @ + e,
                                        !.wait = IF @ > e THEN @ - e ELSE 0]
                     ELSE wk[p]]
         /\ lock' = IF lock.held /\ lock.ttl > e
                    THEN [lock EXCEPT !.ttl = @ - e]
                    ELSE NoLock
         /\ snap' = AgeKey(snap, NoSnap, e)
         /\ ts' = AgeKey(ts, NoTs, e)
         /\ last_live' = IF last_live.has
                         THEN [last_live EXCEPT !.age = Min(@ + e, cache_ttl)]
                         ELSE last_live
  /\ UNCHANGED <<redis_ok, everDown, apiKey, nruns, req, price_cache, cache_redis, call, rate, warm>>

Refresh(p) ==
  \/ Start(p)
  \/ ShouldFetch(p)
  \/ SkipRead(p)
  \/ Acquire(p)
  \/ LostRead(p)
  \/ LiveRequest(p)
  \/ Wake(p)
  \/ FinishFetch(p)
  \/ FetchRaise(p)
  \/ FetchCancel(p)
  \/ Release(p)
  \/ CacheSnapshot(p)
  \/ CacheTimestamp(p)
  \/ Return(p)

\* the store is reachable throughout
NextUp ==
  \/ \E p \in Workers : Refresh(p)
  \/ \E d \in Delays : Tick(d)

SpecUp == Init /\ [][NextUp]_vars

\* two workers, and the store may become unreachable, and reachable again
Next ==
  \/ StoreDown
  \/ StoreUp
  \/ \E p \in {1, 2} : Refresh(p)
  \/ \E d \in Delays : Tick(d)

Spec == Init /\ [][Next]_vars

\* request handlers call get_prices while one worker refreshes and the store
\* comes and goes
NextGet ==
  \/ StoreDown
  \/ StoreUp
  \/ Refresh(1)
  \/ \E d \in Delays : Tick(d)
  \/ \E tickers \in TickerLists : GetPrices(tickers)
  \/ ReqReturn

SpecGet == Init /\ [][NextGet]_vars

\* one worker runs the task while the store comes and goes
NextTask ==
  \/ StoreDown
  \/ StoreUp
  \/ Refresh(1)
  \/ \E d \in Delays : Tick(d)

\* the event loop runs a coroutine that is ready, and time passes
SpecTask ==
  /\ Init
  /\ [][NextTask]_vars
  /\ WF_vars(Refresh(1))
  /\ WF_vars(\E d \in Delays : Tick(d))

\* ---------------------------------------- RedisCacheService, PriceService

PRICE_TTL == 1800

\* DefaultPrices.FALLBACK_PRICES, restricted to the tickers of the model
FALLBACK_PRICES == [t \in {"AAPL"} |-> 150 * 100]

\* what _get_yfinance_price can return for a ticker, 0 standing for None: a
\* close, a close that is not positive, or nothing; for a ticker the
\* provider does not know, nothing
YfAnswers(ticker) ==
  IF ticker \in DOMAIN FALLBACK_PRICES THEN {0, 0 - 100, LiveQuote} ELSE {0}

\* _fetch_price_from_api: the price, or 0 when it raises
\* PriceServiceException
fetch_price_from_api(ans) == IF ans > 0 THEN ans ELSE 0

\* _get_redis, then one command: with the store up the client is made (or
\* the one kept is used) and the command answers; with the store down a
\* client kept from before raises on the command ("error"), and without
\* one no connection can be made and _get_redis returns None ("none")
CacheStatus ==
  IF redis_ok THEN "ok" ELSE IF cache_redis THEN "error" ELSE "none"

\* _get_redis keeps the client it made
Connected == cache_redis \/ redis_ok

\* RedisCacheService.get without its try block
cache_get_unguarded(status, entry) ==
  [value |-> IF status = "ok" /\ entry.has THEN entry.value ELSE 0,
   raised |-> status = "error"]

\* RedisCacheService.get: the value (0 for None), and whether it raised
cache_get(status, entry) ==
  [value |-> IF status = "ok" /\ entry.has THEN entry.value ELSE 0,
   raised |-> FALSE]

\* RedisCacheService.set that only logs a failed setex
cache_set_swallowing(status) ==
  [written |-> status = "ok", raised |-> FALSE]

\* RedisCacheService.set: whether setex wrote, and whether CacheException
\* was raised
cache_set(status) ==
  [written |-> status = "ok", raised |-> status = "error"]

\* the fallback that ignores the table
fallback_price_default_only(ticker) == DefaultPrice

\* DefaultPrices.FALLBACK_PRICES.get(ticker, 100.0)
fallback_price(ticker) == DictGet(FALLBACK_PRICES, ticker, DefaultPrice)

\* setex(price:<key>, PRICE_TTL, value)
SetEntry(cache, key, value) ==
  [cache EXCEPT ![key] = [has |-> TRUE, value |-> value, ttl |-> PRICE_TTL]]

PriceUnchanged ==
  UNCHANGED <<redis_ok, everDown, apiKey, lock, snap, ts, wk, nruns, req, rate, warm, last_live>>

\* get_current_price(t): the ticker is upper-cased and the cache is tried
GetCurrentPrice(t) ==
  /\ call.pc = "idle"
  /\ \E st \in {CacheStatus} :
       LET got == cache_get(st, price_cache[Upper(t)])
       IN  call' = [IdleCall EXCEPT
                      !.op = "current",
                      !.tickers = <<t>>,
                      !.get_status = st,
                      !.get_raised = got.raised,
                      !.cached = got.value,
                      !.raised = got.raised,
                      !.result = got.value,
                      !.pc = IF got.raised \/ got.value # 0 THEN "done" ELSE "fetch"]
  /\ UNCHANGED price_cache
  /\ cache_redis' = Connected
  /\ PriceUnchanged

\* get_current_price: _fetch_price_from_api; when it raises the except
\* branch returns the fallback price
CurrentFetch ==
  /\ call.pc = "fetch"
  /\ call.op = "current"
  /\ \E ans \in YfAnswers(Upper(call.tickers[1])) :
       LET price == fetch_price_from_api(ans)
       IN  call' = [call EXCEPT
                      !.fetched = price,
                      !.fetches = @ + 1,
                      !.result = IF price > 0 THEN @
                                 ELSE fallback_price(Upper(call.tickers[1])),
                      !.pc = IF price > 0 THEN "set" ELSE "done"]
  /\ UNCHANGED price_cache
  /\ cache_redis' = cache_redis
  /\ PriceUnchanged

\* get_current_price: cache_service.set inside the try block, then return
\* price; a CacheException ends in the except branch
CurrentSet ==
  /\ call.pc = "set"
  /\ call.op = "current"
  /\ \E st \in {CacheStatus} :
       LET r == cache_set(st)
           key == Upper(call.tickers[1])
       IN  /\ price_cache' = IF r.written
                             THEN SetEntry(price_cache, key, call.fetched)
                             ELSE price_cache
           /\ call' = [call EXCEPT
                         !.set_status = st,
                         !.set_raised = r.raised,
                         !.writes = IF r.written THEN @ + 1 ELSE @,
                         !.result = IF r.raised THEN fallback_price(key)
                                    ELSE call.fetched,
                         !.pc = "done"]
  /\ cache_redis' = Connected
  /\ PriceUnchanged

\* get_multiple_prices(tickers) starts
GetMultiplePrices(tickers) ==
  /\ call.pc = "idle"
  /\ call' = [IdleCall EXCEPT !.op = "multiple", !.tickers = tickers,
                              !.i = 1, !.pc = "m_get"]
  /\ UNCHANGED price_cache
  /\ cache_redis' = cache_redis
  /\ PriceUnchanged

\* get_multiple_prices: the cache is tried for ticker i
MultiGet ==
  /\ call.pc = "m_get"
  /\ \E st \in {CacheStatus} :
       LET ticker == Upper(call.tickers[call.i])
           got == cache_get(st, price_cache[ticker])
           last == call.i = Len(call.tickers)
           uncached == IF got.value # 0 THEN call.uncached
                       ELSE Append(call.uncached, ticker)
       IN  call' = [call EXCEPT
                      !.get_status = st,
                      !.get_raised = got.raised,
                      !.raised = got.raised,
                      !.prices = IF got.value # 0
                                 THEN DictUpdate(@, [k \in {ticker} |-> got.value])
                                 ELSE @,
                      !.uncached = uncached,
                      !.i = @ + 1,
                      !.pc = IF got.raised THEN "done"
                             ELSE IF ~last THEN "m_get"
                             ELSE IF uncached # <<>> THEN "m_fetch"
                             ELSE "m_fill"]
  /\ UNCHANGED price_cache
  /\ cache_redis' = Connected
  /\ PriceUnchanged

\* _fetch_batch_prices: gather(..., return_exceptions=True) over the batch
\* (the lists of the model fit in one batch of BATCH_SIZE = 10)
MultiFetch ==
  /\ call.pc = "m_fetch"
  /\ \E answers \in [1..Len(call.uncached) -> {0, 0 - 100, LiveQuote}] :
       /\ \A j \in 1..Len(call.uncached) : answers[j] \in YfAnswers(call.uncached[j])
       /\ call' = [call EXCEPT
                     !.answers = [j \in 1..Len(call.uncached) |->
                                    fetch_price_from_api(answers[j])],
                     !.fetches = @ + Len(call.uncached),
                     !.i = 1,
                     !.pc = "m_store"]
  /\ UNCHANGED price_cache
  /\ cache_redis' = cache_redis
  /\ PriceUnchanged

\* _fetch_batch_prices: result i is skipped if it is an exception, else kept
\* and cached; a CacheException is logged
MultiStore ==
  /\ call.pc = "m_store"
  /\ \E st \in {CacheStatus} :
       LET ticker == call.uncached[call.i]
           price == call.answers[call.i]
           r == cache_set(st)
           last == call.i = Len(call.uncached)
       IN  /\ price_cache' = IF price > 0 /\ r.written
                             THEN SetEntry(price_cache, ticker, price)
                             ELSE price_cache
           /\ call' = [call EXCEPT
                         !.prices = IF price > 0
                                    THEN DictUpdate(@, [k \in {ticker} |-> price])
                                    ELSE @,
                         !.set_status = IF price > 0 THEN st ELSE @,
                         !.set_raised = IF price > 0 THEN r.raised ELSE @,
                         !.writes = IF price > 0 /\ r.written THEN @ + 1 ELSE @,
                         !.i = @ + 1,
                         !.pc = IF last THEN "m_fill" ELSE "m_store"]
  /\ cache_redis' = IF call.answers[call.i] > 0 THEN Connected ELSE cache_redis
  /\ PriceUnchanged

\* get_multiple_prices: every ticker without a price gets its fallback
MultiFill ==
  /\ call.pc = "m_fill"
  /\ LET asked == {Upper(call.tickers[j]) : j \in 1..Len(call.tickers)}
     IN  call' = [call EXCEPT
                    !.results = [t \in asked |->
                                   IF t \in DOMAIN call.prices THEN call.prices[t]
                                   ELSE fallback_price(t)],
                    !.pc = "done"]
  /\ UNCHANGED price_cache
  /\ cache_redis' = cache_redis
  /\ PriceUnchanged

\* the caller has the result
CallReturn ==
  /\ call.pc = "done"
  /\ call' = IdleCall
  /\ UNCHANGED price_cache
  /\ cache_redis' = cache_redis
  /\ PriceUnchanged

\* the key price:<k> expires, PRICE_TTL seconds after it was written
PriceExpire(k) ==
  /\ price_cache[k].has
  /\ price_cache' = [price_cache EXCEPT ![k] = NoEntry]
  /\ UNCHANGED call
  /\ cache_redis' = cache_redis
  /\ PriceUnchanged

\* callers of PriceService while the store comes and goes
NextPrice ==
  \/ StoreDown
  \/ StoreUp
  \/ \E t \in InputSymbols : GetCurrentPrice(t)
  \/ CurrentFetch
  \/ CurrentSet
  \/ \E tickers \in TickerLists : GetMultiplePrices(tickers)
  \/ MultiGet
  \/ MultiFetch
  \/ MultiStore
  \/ MultiFill
  \/ CallReturn
  \/ \E k \in PriceKeys : PriceExpire(k)

SpecPrice == Init /\ [][NextPrice]_vars

\* every store operation at work: the refresh task of one worker and callers
\* of get_current_price, while the store comes and goes
NextStore ==
  \/ StoreDown
  \/ StoreUp
  \/ Refresh(1)
  \/ \E d \in Delays : Tick(d)
  \/ \E t \in InputSymbols : GetCurrentPrice(t)
  \/ CurrentFetch
  \/ CurrentSet
  \/ CallReturn

SpecStore == Init /\ [][NextStore]_vars

\* ------------------------------------------------ PriceService._rate_limit

RateUnchanged ==
  UNCHANGED <<redis_ok, everDown, apiKey, lock, snap, ts, wk, nruns, req,
              price_cache, cache_redis, call, warm, last_live>>

\* sleep_time of _rate_limit, 0 when the interval has passed already
rate_limit_sleep(current_time, last) ==
  IF current_time - last < MIN_REQUEST_INTERVAL
  THEN MIN_REQUEST_INTERVAL - (current_time - last)
  ELSE 0

\* coroutine c calls _rate_limit and runs to its first await: it reads the
\* clock and last_request_time, and either goes to sleep or, with nothing
\* to wait for, stamps last_request_time and is through
RateEnter(c) ==
  /\ rate.co[c].pc = "idle"
  /\ LET sleep_time == rate_limit_sleep(rate.now, rate.last_request_time)
     IN  rate' = IF sleep_time > 0
                 THEN [rate EXCEPT !.co[c] = [pc |-> "sleep",
                                              wake |-> rate.now + sleep_time]]
                 ELSE [rate EXCEPT !.co[c] = [pc |-> "done", wake |-> 0],
                                   !.last_request_time = rate.now,
                                   !.completed = [has |-> TRUE, at |-> rate.now]]
  /\ RateUnchanged

\* asyncio.sleep(sleep_time) is over: last_request_time = time.time()
RateWake(c) ==
  /\ rate.co[c].pc = "sleep"
  /\ rate.now >= rate.co[c].wake
  /\ rate' = [rate EXCEPT !.co[c] = [pc |-> "done", wake |-> 0],
                          !.last_request_time = rate.now,
                          !.completed = [has |-> TRUE, at |-> rate.now]]
  /\ RateUnchanged

\* the caller goes on to its request, and may call again
RateReturn(c) ==
  /\ rate.co[c].pc = "done"
  /\ rate' = [rate EXCEPT !.co[c] = IdleCaller]
  /\ RateUnchanged

\* half a second passes
RateTick ==
  /\ rate.now < MaxClock
  /\ rate' = [rate EXCEPT !.now = @ + 1]
  /\ RateUnchanged

\* request handlers on one event loop share the one PriceService
NextRate ==
  \/ \E c \in Callers : RateEnter(c)
  \/ \E c \in Callers : RateWake(c)
  \/ \E c \in Callers : RateReturn(c)
  \/ RateTick

SpecRate == Init /\ [][NextRate]_vars

\* ------------------------------------------- BulkPriceService.warm_cache

\* warm_cache: self.fetch_bulk_prices is not an attribute of BulkPriceService,
\* so the first line of the try block raises AttributeError, cache_bulk_prices
\* is not reached and the except branch returns False
warm_cache(status) == [result |-> FALSE, wrote |-> FALSE]

WarmCache ==
  /\ warm.pc = "idle"
  /\ \E st \in StoreStatuses :
       warm' = [pc |-> "done", result |-> warm_cache(st).result,
                reachable |-> st = "ok", wrote |-> warm_cache(st).wrote]
  /\ UNCHANGED <<redis_ok, everDown, apiKey, lock, snap, ts, wk, nruns, req,
                 price_cache, cache_redis, call, rate, last_live>>

WarmReturn ==
  /\ warm.pc = "done"
  /\ warm' = IdleWarm
  /\ UNCHANGED <<redis_ok, everDown, apiKey, lock, snap, ts, wk, nruns, req,
                 price_cache, cache_redis, call, rate, last_live>>

\* the cache is warmed while one worker refreshes and the store comes and goes
NextWarm ==
  \/ StoreDown
  \/ StoreUp
  \/ Refresh(1)
  \/ \E d \in Delays : Tick(d)
  \/ WarmCache
  \/ WarmReturn

SpecWarm == Init /\ [][NextWarm]_vars

\* ------------------------------------------------- a holder that crashes

\* the worker process dies inside the try block of fetch_bulk_prices_safe:
\* neither finally nor the rest of the task runs, the key stays
Crash(p) ==
  /\ Running(p)
  /\ wk' = [wk EXCEPT ![p] = IdleWorker]
  /\ UNCHANGED <<redis_ok, everDown, apiKey, lock, snap, ts, nruns, req,
                 price_cache, cache_redis, call, rate, warm, last_live>>

NextLock ==
  \/ StoreDown
  \/ StoreUp
  \/ Refresh(1)
  \/ Crash(1)
  \/ \E d \in Delays : Tick(d)

\* the event loop runs a coroutine that is ready, and time passes; nothing
\* makes a worker crash
SpecLock ==
  /\ Init
  /\ [][NextLock]_vars
  /\ WF_vars(Refresh(1))
  /\ WF_vars(\E d \in Delays : Tick(d))

\* ------------------------------------------- refresh runs one after another

\* the task is run again and again, one more time than in the other
\* specifications, the store reachable throughout
NextBeat ==
  \/ \E p \in {1, 2} : StartWithin(p, MaxRuns + 1)
  \/ \E p \in {1, 2} : Refresh(p)
  \/ \E d \in Delays : Tick(d)

SpecBeat == Init /\ [][NextBeat]_vars

\* ---------------------------------------------------------------- claims

Given(tickers) == {tickers[i] : i \in 1..Len(tickers)}

FallbackOrDefault(t) ==
  IF Upper(t) \in DOMAIN fallback_prices THEN fallback_prices[Upper(t)]
  ELSE DefaultPrice

\* the snapshot a reader of the store gets now
FreshSnapshot == redis_ok /\ snap.has /\ snap.age <= cache_ttl /\ snap.prices # NoPrices

\* C1: get_prices is total: whatever the store holds and whatever the
\* tickers, the mapping returned has exactly the tickers as given for keys
\* and every value is positive.
C1_Total ==
  req.pc = "done" =>
    /\ DOMAIN req.result = Given(req.tickers)
    /\ \A t \in DOMAIN req.result : req.result[t] > 0

C1_Witness ==
  /\ req.pc = "done"
  /\ req.tickers = <<"aapl", "AAPL">>
  /\ ~req.scheduled
  /\ req.result["aapl"] = LiveQuote

\* C2: get_prices answers each ticker with the value of its upper-cased
\* symbol in the fresh snapshot if it is there, else with the fallback price
\* of that symbol, else with 100.0; with no fresh snapshot readable every
\* ticker gets fallback-or-100.0.
C2_Lookup ==
  [][(req.pc = "idle" /\ req'.pc = "done") =>
       \A t \in Given(req'.tickers) :
         req'.result[t] =
           IF FreshSnapshot /\ Upper(t) \in DOMAIN snap.prices
           THEN snap.prices[Upper(t)]
           ELSE FallbackOrDefault(t)]_vars

C2_Witness ==
  /\ req.pc = "done"
  /\ req.tickers = <<"aapl", "zzz">>
  /\ req.result["aapl"] = LiveQuote
  /\ req.result["zzz"] = DefaultPrice
  /\ FreshSnapshot

InLiveFetch(p) == wk[p].pc \in {"fetch", "sleep", "release"}

\* C4: with the store reachable, at most one refresh is between a
\* successful acquire_fetch_lock and its release_fetch_lock at any time.
C4_MutualExclusion ==
  Cardinality({p \in Workers : InLiveFetch(p)}) <= 1

C4_Witness ==
  \E p, q \in Workers :
    /\ wk[p].pc = "sleep"
    /\ wk[q].pc = "lost_read"
    /\ lock.held /\ lock.owner = p

\* the task of p has started and has not returned its result
InRun(p) == wk[p].pc \notin {"idle", "done"}

\* C5: when two refresh invocations overlap against a reachable store, it
\* is never the case that both of them send live requests: one fetches, the
\* other returns without fetching.
C5_OneFetches ==
  \A p, q \in Workers :
    (p # q /\ InRun(p) /\ InRun(q)) => ~(wk[p].calls > 0 /\ wk[q].calls > 0)

\* fetch_bulk_prices_safe of p is over
AfterFetch(p) == wk[p].pc \in {"cache", "cache_ts", "done"}

\* the finally block of p runs, after the try block raised or was cancelled
\* while p held the key it had created
ReleaseAfterFailure(p) ==
  /\ wk[p].pc = "release"
  /\ wk'[p].pc # "release"
  /\ wk[p].holds = "key"
  /\ wk[p].outcome \in {"raised", "timeout"}

\* C6 as stated: if the live-fetch step of a refresh that acquired the lock
\* raises or is cancelled by the 300-second timeout, the lock key is absent
\* when the refresh returns, and the next refresh can acquire it at once.
C6_AlwaysReleased ==
  [][\A p \in Workers :
       ReleaseAfterFailure(p) =>
         ~lock'.held /\ acquire_fetch_lock("ok", lock') = "key"]_vars

\* C6 amended: if the live-fetch step of a refresh that acquired the lock
\* raises or is cancelled by the 300-second timeout, and the store is
\* reachable when the finally block deletes the key, the lock key is absent
\* when fetch_bulk_prices_safe returns and the next refresh can acquire it at
\* once; with the store unreachable the key stays until it expires.
C6_ReleasedWhenReachable ==
  [][\A p \in Workers :
       ReleaseAfterFailure(p) =>
         IF redis_ok
         THEN ~lock'.held /\ acquire_fetch_lock("ok", lock') = "key"
         ELSE lock' = lock]_vars

C6_Witness ==
  \E p \in Workers :
    /\ wk[p].pc = "done"
    /\ wk[p].holds = "key"
    /\ wk[p].outcome = "timeout"
    /\ wk[p].released = "ok"
    /\ ~lock.held

\* a refresh of p that held the key returned with no live price at all: the
\* adapter is disabled, every request failed, or the try block raised
FetchedNothing(p) ==
  /\ wk[p].pc \in {"release", "cache", "cache_ts", "done"}
  /\ wk[p].route = "fetch"
  /\ wk[p].holds = "key"
  /\ wk[p].outcome \in {"returned", "raised"}
  /\ wk[p].live = NoPrices

\* C7 as stated: with every live adapter disabled or failing, a refresh
\* that holds the lock produces exactly the fallback table restricted to the
\* tracked symbols: same keys, same values, nothing added.
C7_ExactlyFallbackTable ==
  \A p \in Workers :
    FetchedNothing(p) =>
      wk[p].ret = [a \in all_assets \cap DOMAIN fallback_prices |-> fallback_prices[a]]

\* C7 amended: with every live adapter disabled or failing, a refresh that
\* holds the lock produces prices for exactly the tracked symbols: the
\* fallback-table value of each symbol the table has, and 100.0 for each
\* tracked symbol the table does not have.
C7_FallbackFloor ==
  \A p \in Workers :
    FetchedNothing(p) =>
      /\ DOMAIN wk[p].ret = all_assets
      /\ \A a \in all_assets :
           wk[p].ret[a] = IF a \in DOMAIN fallback_prices
                          THEN fallback_prices[a] ELSE DefaultPrice

C7_Witness ==
  \E p \in Workers :
    /\ FetchedNothing(p)
    /\ apiKey
    /\ wk[p].calls = Len(fetch_assets)
    /\ wk[p].outcome = "returned"
    /\ wk[p].ret["GOOG"] = DefaultPrice

\* C8: with the store reachable, a refresh task that runs after another one,
\* alone, and starts within the refresh interval of the last snapshot write
\* sends no live request and returns the stored prices.
C8_StalenessSkip ==
  \A p \in Workers :
    (AfterFetch(p) /\ wk[p].solo /\ wk[p].recent) =>
      /\ wk[p].calls = 0
      /\ wk[p].route = "skip"
      /\ snap.has
      /\ wk[p].ret = snap.prices

C8_Witness ==
  \E p \in Workers :
    /\ wk[p].pc = "cache"
    /\ wk[p].solo
    /\ wk[p].recent
    /\ ts.age = bulk_fetch_interval
    /\ snap.prices["AAPL"] = LiveQuote

\* C9: with the store unreachable, because no connection can be made or
\* because the connection fails on the command, get_prices raises nothing
\* and returns for every ticker its fallback price or 100.0.
C9_StoreDownDegrades ==
  [][(req.pc = "idle" /\ req'.pc = "done" /\ ~redis_ok) =>
       /\ ~req'.raised
       /\ DOMAIN req'.result = Given(req'.tickers)
       /\ \A t \in Given(req'.tickers) : req'.result[t] = FallbackOrDefault(t)]_vars

C9_Witness ==
  /\ req.pc = "done"
  /\ req.status = "error"
  /\ ~redis_ok
  /\ snap.has
  /\ snap.prices["AAPL"] = LiveQuote
  /\ req.tickers = <<"aapl", "zzz">>
  /\ req.result["aapl"] = fallback_prices["AAPL"]

\* acquire_fetch_lock of p answers
AcquireStep(p) == wk[p].pc = "acquire" /\ wk'[p].pc # "acquire"

\* the answer is True: p enters the try block
ReturnedTrue(p) == wk'[p].pc = "fetch"

\* the call created the lock key
CreatedKey(p) == ~lock.held /\ lock'.held /\ lock'.owner = p

\* C10 as stated: acquire_fetch_lock returns true if and only if this call
\* created the lock key, whatever the outcome of the store operation.
C10_TrueIffCreated ==
  [][\A p \in Workers : AcquireStep(p) => (ReturnedTrue(p) <=> CreatedKey(p))]_vars

\* C10 amended: acquire_fetch_lock returns false if and only if the store
\* answered the SET NX and the key was already present; it returns true when
\* this call created the key and also, creating no key, when the store is
\* unreachable or the store operation raises.
C10_FailOpen ==
  [][\A p \in Workers :
       AcquireStep(p) =>
         /\ ~ReturnedTrue(p) <=> (redis_ok /\ lock.held)
         /\ CreatedKey(p) <=> (redis_ok /\ ~lock.held)
         /\ ~redis_ok => lock' = lock]_vars

C10_Witness ==
  \E p \in Workers :
    /\ wk[p].pc = "fetch"
    /\ wk[p].holds = "open"
    /\ lock.held
    /\ lock.owner # p

\* the task of p found the last fetch younger than the interval and a fresh
\* snapshot, and fetch_bulk_prices_safe returned that snapshot
SkippedRun(p) == wk[p].route = "skip" /\ wk[p].recent

\* a step of cache_bulk_prices of p
CacheStep(p) == wk[p].pc \in {"cache", "cache_ts"} /\ wk'[p].pc # wk[p].pc

\* C11: a refresh run that finds the fetch not due while a fresh snapshot
\* exists is a no-op on the store: the snapshot blob (prices, timestamp,
\* count) and the last-fetch timestamp key are after the run what they were
\* before it, and the run sends no live request.
C11_SkipIsNoOp ==
  [][\A p \in Workers :
       (SkippedRun(p) /\ CacheStep(p)) =>
         (wk[p].calls = 0 /\ snap' = snap /\ ts' = ts)]_vars

\* setex of the snapshot blob by p succeeds
SnapshotWrite(p) == wk[p].pc = "cache" /\ wk'[p].pc = "cache_ts"

\* setex of the last-fetch timestamp by p succeeds
TimestampWrite(p) == wk[p].pc = "cache_ts" /\ wk'[p].cache_success

\* C12: every write of the snapshot key and of the last-fetch timestamp key
\* is made by a process that holds the refresh lock at that moment.
C12_WritesUnderLock ==
  [][\A p \in Workers :
       (SnapshotWrite(p) \/ TimestampWrite(p)) =>
         (lock.held /\ lock.owner = p)]_vars

\* C13: whenever a snapshot is stored, every key of its prices is an
\* upper-case symbol of the tracked set, every value is positive and count
\* is the number of price entries.
C13_SnapshotInvariant ==
  snap.has =>
    /\ DOMAIN snap.prices \subseteq all_assets
    /\ \A k \in DOMAIN snap.prices : Upper(k) = k /\ snap.prices[k] > 0
    /\ snap.count = Cardinality(DOMAIN snap.prices)

C13_Witness ==
  /\ snap.has
  /\ snap.count = Cardinality(all_assets)
  /\ snap.prices["AAPL"] = LiveQuote
  /\ snap.prices["GOOG"] = DefaultPrice
  /\ \E p \in Workers : wk[p].pc = "cache_ts" /\ wk[p].route = "lost"

\* C14: the refresh task always terminates with a result that carries a
\* status, and neither a provider error nor a store error nor the timeout
\* leaves it as an exception.
C14_TaskReturnsStatus ==
  /\ [](\A p \in Workers :
          wk[p].pc = "done" => wk[p].status \in {"success", "error"})
  /\ \A p \in Workers : (wk[p].pc # "idle") ~> (wk[p].pc = "done")

C14_Witness ==
  /\ wk[1].pc = "done"
  /\ wk[1].outcome = "timeout"
  /\ wk[1].status = "error"
  /\ wk[1].released = "failed"
  /\ ~redis_ok

\* C15: a get_prices call that finds no usable snapshot (none stored, or the
\* store unreachable) schedules a background refresh and returns at once
\* the fallback price or 100.0 for every ticker of the request; a call that
\* reads a usable snapshot schedules no refresh.
C15_SchedulesOnMiss ==
  [][(req.pc = "idle" /\ req'.pc = "done") =>
       IF FreshSnapshot
       THEN ~req'.scheduled
       ELSE /\ req'.scheduled
            /\ \A t \in Given(req'.tickers) : req'.result[t] = FallbackOrDefault(t)
            /\ \A p \in Workers : wk'[p] = wk[p]]_vars

C15_Witness ==
  /\ req.pc = "done"
  /\ req.scheduled
  /\ req.status = "none"
  /\ snap.has
  /\ req.tickers = <<"zzz", "AAPL">>
  /\ wk[1].pc = "sleep"

\* cache_service.get answers a call of PriceService
GetStep ==
  \/ call.pc = "idle" /\ call'.op = "current"
  \/ call.pc = "m_get" /\ call'.i = call.i + 1

\* cache_service.set is called by PriceService
SetStep ==
  \/ call.pc = "set" /\ call'.pc = "done"
  \/ call.pc = "m_store" /\ call'.i = call.i + 1 /\ call.answers[call.i] > 0

\* get_cached_prices of the task of p answers while the store is away: a miss
BulkReadMisses(p) ==
  /\ wk[p].pc = "skip_read" => wk'[p].pc = "acquire"
  /\ wk[p].pc = "lost_read" => wk'[p].ret = FallbackDict

\* cache_bulk_prices of the task of p returns False while the store is away
BulkWriteSkipped(p) ==
  (CacheStep(p) /\ ~redis_ok) =>
    /\ snap' = snap
    /\ ts' = ts
    /\ wk'[p].pc = "done"
    /\ ~wk'[p].cache_success
    /\ wk'[p].status = "success"

\* the reads absorb a store failure: a miss, and nothing raised
ReadsAbsorb ==
  /\ (GetStep /\ ~redis_ok) => (call'.cached = 0 /\ ~call'.get_raised)
  /\ GetStep => ~call'.raised
  /\ \A p \in Workers :
       (wk'[p] # wk[p] /\ ~redis_ok) => BulkReadMisses(p)

\* C16 as stated: every cache-store operation absorbs a store failure: a
\* read reports a miss, a write returns silently, none raises.
C16_AllAbsorb ==
  [][/\ ReadsAbsorb
     /\ \A p \in Workers : BulkWriteSkipped(p)
     /\ (SetStep /\ ~redis_ok) => price_cache' = price_cache
     /\ SetStep => ~call'.set_raised]_vars

\* C16 amended: the reads (RedisCacheService.get, get_cached_prices) report
\* a miss and cache_bulk_prices returns False when the connection or the
\* command fails, and none of them raises; RedisCacheService.set writes
\* nothing then, returns silently when there is no connection and raises
\* CacheException when the command fails on a connection.
C16_AbsorbExceptSet ==
  [][/\ ReadsAbsorb
     /\ \A p \in Workers : BulkWriteSkipped(p)
     /\ (SetStep /\ ~redis_ok) => price_cache' = price_cache
     /\ SetStep => (call'.set_raised <=> call'.set_status = "error")]_vars

C16_Witness ==
  /\ ~redis_ok
  /\ wk[1].pc = "done"
  /\ wk[1].route = "fetch"
  /\ wk[1].status = "success"
  /\ ~wk[1].cache_success
  /\ call.pc = "done"
  /\ call.get_status = "error"
  /\ call.set_status = "error"
  /\ call.set_raised
  /\ call.fetched = LiveQuote

\* C17: RedisCacheService.set raises CacheException whenever setex fails on
\* an available connection, and returns without raising and without writing
\* when no connection is available; otherwise it writes and returns.
C17_SetRaisesOnFailure ==
  [][SetStep =>
       /\ call'.set_status = "error" =>
            (call'.set_raised /\ price_cache' = price_cache)
       /\ call'.set_status = "none" =>
            (~call'.set_raised /\ price_cache' = price_cache)
       /\ call'.set_status = "ok" =>
            (~call'.set_raised /\ call'.writes = call.writes + 1)]_vars

C17_Witness ==
  /\ call.pc = "m_store"
  /\ call.i = 2
  /\ call.set_status = "error"
  /\ call.set_raised
  /\ call.prices["AAPL"] = LiveQuote
  /\ ~price_cache["AAPL"].has

\* a call of get_current_price has returned
CurrentDone == call.pc = "done" /\ call.op = "current"

\* C18: get_current_price is a read-through cache: on a hit under
\* price:<UPPER(ticker)> it returns the cached value, fetches nothing and
\* writes nothing; on a miss it fetches once and, when the fetch succeeds,
\* returns the fetched price, having written it once with TTL 1800 (when
\* the store took the write).
C18_ReadThrough ==
  CurrentDone =>
    IF call.cached # 0
    THEN call.result = call.cached /\ call.fetches = 0 /\ call.writes = 0
    ELSE /\ call.fetches = 1
         /\ call.fetched > 0 =>
              /\ call.result = call.fetched
              /\ call.writes <= 1
              /\ call.set_status = "ok" =>
                   /\ call.writes = 1
                   /\ price_cache[Upper(call.tickers[1])] =
                        [has |-> TRUE, value |-> call.fetched, ttl |-> 1800]

\* the cache missed and the API fetch raised
FetchFailed ==
  CurrentDone /\ call.cached = 0 /\ call.fetches = 1 /\ call.fetched = 0

\* C19: when the cache misses and the API fetch raises, get_current_price
\* raises nothing, returns the ticker's entry of FALLBACK_PRICES (100.0 for
\* a ticker without one) and does not call the cache write.
C19_FallbackOnApiFailure ==
  FetchFailed =>
    /\ ~call.raised
    /\ call.result =
         IF Upper(call.tickers[1]) \in DOMAIN FALLBACK_PRICES
         THEN FALLBACK_PRICES[Upper(call.tickers[1])]
         ELSE DefaultPrice
    /\ call.writes = 0
    /\ call.set_status = "none"

C19_Witness ==
  /\ FetchFailed
  /\ call.tickers = <<"aapl">>
  /\ call.get_status = "error"
  /\ call.result = 150 * 100

\* no cached price, no fallback entry, and the provider does not know it
Unobtainable(ticker) ==
  /\ ticker \notin DOMAIN FALLBACK_PRICES
  /\ YfAnswers(ticker) = {0}
  /\ ~price_cache[ticker].has

\* C20: for a ticker with no obtainable price get_current_price returns 0.0,
\* and get_multiple_prices maps it to 0.0 while returning an entry for
\* every requested ticker.
C20_InvalidTickerIsZero ==
  /\ (FetchFailed /\ Unobtainable(Upper(call.tickers[1]))) => call.result = 0
  /\ (call.pc = "done" /\ call.op = "multiple") =>
       \A j \in 1..Len(call.tickers) :
         /\ Upper(call.tickers[j]) \in DOMAIN call.results
         /\ Unobtainable(Upper(call.tickers[j])) =>
              call.results[Upper(call.tickers[j])] = 0

\* a call of _rate_limit by c completes
RateCompletes(c) == rate.co[c].pc # "done" /\ rate'.co[c].pc = "done"

\* C21: on one PriceService, any two completions of _rate_limit, from
\* sequential calls or from coroutines running concurrently, are at least
\* MIN_REQUEST_INTERVAL (1 second) apart.
C21_CompletionsApart ==
  [][\A c \in Callers :
       (RateCompletes(c) /\ rate.completed.has) =>
         rate'.now - rate.completed.at >= MIN_REQUEST_INTERVAL]_vars

\* p leaves the branch "lock not acquired"
LostStep(p) == wk[p].pc = "lost_read" /\ wk'[p].pc # "lost_read"

\* C22: a refresh whose lock acquisition fails returns the prices of the
\* snapshot if a fresh one exists and the fallback of every tracked symbol
\* otherwise; it sends no live request, does not wait and does not try the
\* lock again.
C22_LostLockReturnsSnapshot ==
  [][\A p \in Workers :
       /\ (AcquireStep(p) /\ ~ReturnedTrue(p)) =>
            (wk'[p].pc = "lost_read" /\ lock' = lock)
       /\ LostStep(p) =>
            /\ wk'[p].ret = IF FreshSnapshot THEN snap.prices ELSE FallbackDict
            /\ wk'[p].outcome = "returned"
            /\ wk'[p].pc = "cache"
            /\ wk'[p].calls = 0
            /\ wk'[p].live = NoPrices
            /\ wk'[p].elapsed = 0
            /\ wk'[p].wait = 0
            /\ lock' = lock]_vars

C22_Witness ==
  \E p, q \in Workers :
    /\ wk[p].route = "lost"
    /\ wk[p].pc = "cache"
    /\ wk[p].ret = FallbackDict
    /\ ~snap.has
    /\ wk[q].holds = "key"
    /\ wk[q].pc = "sleep"

\* the DELETE of release_fetch_lock by p removes the key
DeletesKey(p) ==
  /\ wk[p].pc = "release"
  /\ wk'[p].pc # "release"
  /\ lock.held
  /\ ~lock'.held

\* C23: the lock key is removed only by the refresh that created it or by
\* its expiry: no refresh deletes a key that another refresh created, in
\* any interleaving and under any pattern of store failures.
C23_OnlyCreatorDeletes ==
  [][\A p \in Workers :
       DeletesKey(p) => (lock.owner = p /\ wk[p].holds = "key")]_vars

\* p sends the request for the next priority symbol
RequestStep(p) == wk[p].pc = "fetch" /\ wk'[p].calls = wk[p].calls + 1

\* the try block of p returned after the loop over the priority symbols
FetchedLive(p) ==
  /\ apiKey
  /\ wk[p].route = "fetch"
  /\ wk[p].outcome = "returned"

\* C24: when the request for one priority symbol fails, the refresh still
\* completes, that symbol carries its fallback value in the result, and
\* every other priority symbol whose request returned a positive price
\* carries that live price.
C24_FailureIsolation ==
  /\ [][\A p \in Workers :
          RequestStep(p) =>
            /\ wk'[p].pc \in {"fetch", "sleep"}
            /\ \A a \in DOMAIN wk[p].live :
                 a \in DOMAIN wk'[p].live /\ wk'[p].live[a] = wk[p].live[a]]_vars
  /\ [](\A p \in Workers :
          FetchedLive(p) =>
            /\ wk[p].calls = Len(fetch_assets)
            /\ \A i \in 1..Len(fetch_assets) :
                 wk[p].ret[fetch_assets[i]] =
                   IF fetch_assets[i] \in DOMAIN wk[p].live
                   THEN wk[p].live[fetch_assets[i]]
                   ELSE DictGet(fallback_prices, fetch_assets[i], DefaultPrice))

C24_Witness ==
  \E p \in Workers :
    /\ FetchedLive(p)
    /\ DOMAIN wk[p].live = {"MSFT"}
    /\ wk[p].ret["AAPL"] = fallback_prices["AAPL"]
    /\ wk[p].ret["MSFT"] = LiveQuote

\* C25: within one refresh the single-quote adapter sends at most 10
\* requests, only for tracked symbols of the priority subset, and two
\* consecutive requests are at least 12 seconds apart whatever the outcome
\* of each.
C25_RequestBudget ==
  \A p \in Workers :
    /\ wk[p].calls <= MaxPriority
    /\ wk[p].calls <= Len(fetch_assets)
    /\ \A i \in 1..wk[p].calls :
         /\ fetch_assets[i] \in all_assets
         /\ \E j \in 1..Len(priority_assets) : priority_assets[j] = fetch_assets[i]
    /\ DOMAIN wk[p].live \subseteq {fetch_assets[i] : i \in 1..wk[p].calls}
    /\ (wk[p].pc = "fetch" /\ wk[p].calls > 0 /\ wk[p].calls < Len(fetch_assets)) =>
         wk[p].elapsed >= RequestDelay * wk[p].calls

C25_Witness ==
  \E p \in Workers :
    /\ wk[p].pc = "fetch"
    /\ wk[p].calls = Len(fetch_assets)
    /\ wk[p].calls > 1
    /\ wk[p].elapsed = RequestDelay
    /\ wk[p].live = NoPrices

\* the key expires: it goes away with no release_fetch_lock running
Expires == lock.held /\ ~lock'.held /\ \A p \in Workers : wk[p].pc # "release"

\* C26: whenever the lock key is present it is eventually absent again,
\* released by its holder or removed by its 600-second expiry when the
\* holder crashed or its release failed; and the key does not expire while
\* its holder is still inside a refresh, which the 300-second cap bounds.
C26_LockNeverBlocksForever ==
  /\ lock.held ~> ~lock.held
  /\ [][Expires => ~(wk[lock.owner].holds = "key" /\ Running(lock.owner))]_vars

C26_Witness ==
  /\ lock.held
  /\ wk[lock.owner].pc = "idle"
  /\ lock.ttl <= LockTTL - FetchTimeout

\* C27: warm_cache fetches the prices of the tracked assets, writes them to
\* the store as the snapshot and returns true whenever the store is
\* reachable and the write succeeds.
C27_WarmCacheSucceeds ==
  (warm.pc = "done" /\ warm.reachable) => (warm.result /\ warm.wrote)

\* the stored prices are those a refresh that held the key has written
StoredByHolder ==
  \E q \in Workers :
    /\ wk[q].route = "fetch"
    /\ wk[q].holds = "key"
    /\ wk[q].pc \in {"cache_ts", "done"}
    /\ snap.has
    /\ snap.prices = wk[q].ret

\* C28: once a lock-holding refresh has stored a snapshot, a later write by
\* a run that made no live fetch (it skipped as not due, or lost the lock)
\* never changes the stored prices.
C28_NoLostUpdate ==
  [][\A p \in Workers :
       (SnapshotWrite(p) /\ wk[p].route \in {"skip", "lost"} /\ StoredByHolder) =>
         snap'.prices = snap.prices]_vars

\* C29: with the store reachable and the lock free, a refresh run that
\* starts more than one refresh interval (3600 s) after the last run that
\* executed the live fetch executes the live fetch itself, however many runs
\* that were not due happened in between.
C29_LiveFetchNotStarved ==
  \A p \in Workers :
    (redis_ok /\ ~lock.held /\ last_live.has /\ wk[p].route = "skip") =>
      last_live.age <= bulk_fetch_interval

\* C30: in get_current_price, when the cache misses and the API fetch
\* succeeds, the value returned is the fetched price whether or not the
\* cache write that follows succeeds.
C30_WriteFailureKeepsPrice ==
  (CurrentDone /\ call.cached = 0 /\ call.fetched > 0) =>
    call.result = call.fetched

====
